---- MODULE Spec2Model ----
(***************************************************************************)
(* Folder/file hierarchy, blob store and permission engine of the          *)
(* file-drive API: FolderService, FileService, PermissionService,          *)
(* S3Service.deletePrefix/deleteObject and the checkPermission middleware. *)
(* Documents are records keyed by ObjectId; ObjectIds are opaque fresh     *)
(* values and are modelled by counters.  Strings that the code transforms  *)
(* (folder and file names) are sequences of one-character strings.         *)
(***************************************************************************)
EXTENDS Integers, Sequences, FiniteSets, TLC

(* ------------------------------ bounds --------------------------------- *)
\* folders and files ever created, per specification
MaxNamedFolders == 3
MaxBuildIds == 4
MaxMoveIds == 3
MaxAuthIds == 3
MaxKeyIds == 3
MaxTwiceIds == 3
MaxParentIds == 3
MaxRaceIds == 2
MaxAddIds == 4
MaxCrashIds == 3
MaxWalkIds == 3
\* Permission documents in the collection
MaxPerms == 3
\* service calls in flight at the same time
MaxClock == 1
MaxCalls == 2
MaxIds == MaxNamedFolders + MaxBuildIds + MaxMoveIds + MaxAuthIds

(* ---------------------------- vocabulary ------------------------------- *)
NullId == 0
\* a well-formed ObjectId that no document ever has
MissingId == MaxIds + 1
Users == {"u1", "u2"}
Businesses == {"w1", "w2"}
ACCESS_LEVELS == {"read", "write", "create", "delete", "owner"}
ResourceTypes == {"file", "folder"}
\* the access-level arrays that the grant requests carry
LevelInputs == {{"read"}, {"read", "write"}}

(* ------------------------------ strings -------------------------------- *)
WhiteSpace == {" ", "\t", "\n"}
SafeChars ==
  {"a","b","c","d","e","f","g","h","i","j","k","l","m","n","o","p","q","r",
   "s","t","u","v","w","x","y","z",
   "A","B","C","D","E","F","G","H","I","J","K","L","M","N","O","P","Q","R",
   "S","T","U","V","W","X","Y","Z",
   "0","1","2","3","4","5","6","7","8","9",".","_","-"}
FolderNameMax == 120
FileNameMax == 180

RECURSIVE TrimStart(_)
TrimStart(s) ==
  IF Len(s) > 0 /\ s[1] \in WhiteSpace THEN TrimStart(Tail(s)) ELSE s

RECURSIVE TrimEnd(_)
TrimEnd(s) ==
  IF Len(s) > 0 /\ s[Len(s)] \in WhiteSpace
  THEN TrimEnd(SubSeq(s, 1, Len(s) - 1)) ELSE s

Trim(s) == TrimEnd(TrimStart(s))

ReplaceUnsafe(s) == [i \in 1..Len(s) |-> IF s[i] \in SafeChars THEN s[i] ELSE "_"]

Slice(s, n) == SubSeq(s, 1, IF Len(s) < n THEN Len(s) ELSE n)

sanitizeFolderName(folderName) == Slice(ReplaceUnsafe(folderName), FolderNameMax)

sanitizeFilename(originalName) == Slice(ReplaceUnsafe(originalName), FileNameMax)

\* raw folder names sent by clients
LongName(c) == [i \in 1..(FolderNameMax + 1) |-> IF i = FolderNameMax + 1 THEN c ELSE "x"]
RawFolderNames ==
  { <<" ", "a", " ", "b">>, <<"a", "/", "b">>, LongName("y"), LongName("z") }
RawFileNames == { <<"q", "1", ".", "p", "d", "f">> }

(* ---------------------------- storage keys ----------------------------- *)
\* `${businessId}/folders/${folderId}/`
folderPrefix(businessId, folderId) ==
  [businessId |-> businessId, kind |-> "folders", folderId |-> folderId]
\* `${businessId}/root/`
rootPrefix(businessId) ==
  [businessId |-> businessId, kind |-> "root", folderId |-> NullId]
\* `${keyPrefix}files/${fileId}-${normalizedFileName}`
FileKey(keyPrefix, fileId, normalizedFileName) ==
  [prefix |-> keyPrefix, fileId |-> fileId, name |-> normalizedFileName]
\* S3 ListObjectsV2 Prefix match
HasPrefix(key, prefix) == key.prefix = prefix

(* ------------------------------- state --------------------------------- *)
\* requests served at the same time; each runs up to its next await in a step
Calls == 1..MaxCalls
Idle == [pc |-> "idle"]
\* a signed refresh token is its payload; NoToken is the absent cookie and the
\* null of User.refreshToken
NoToken == [userId |-> "none", iat |-> 0]
Tokens == [userId : Users, iat : 0..MaxClock]
VARIABLES
  folders,     \* Folder collection: _id -> document
  files,       \* File collection: _id -> document
  blobs,       \* object keys present in the bucket
  perms,       \* Permission collection: set of documents
  uploads,     \* results of startUpload held by clients
  nextId,      \* next fresh ObjectId for folders and files
  last,        \* the last completed call: operation, arguments, outcome
  inflight,    \* service calls suspended at an await: slot -> call record
  userRefreshToken, \* User.refreshToken of each user
  now,         \* the clock, in seconds (the iat of a token signed now)
  accepted     \* how often refreshAccessToken answered 200 to each token

vars == <<folders, files, blobs, perms, uploads, nextId, last, inflight,
          userRefreshToken, now, accepted>>
NoCallInFlight == \A c \in Calls : inflight[c] = Idle

Init ==
  /\ folders = <<>>
  /\ files = <<>>
  /\ blobs = {}
  /\ perms = {}
  /\ uploads = {}
  /\ nextId = 1
  /\ last = [op |-> "init", args |-> <<>>, res |-> "ok"]
  /\ inflight = [c \in Calls |-> Idle]
  /\ userRefreshToken = [u \in Users |-> NoToken]
  /\ now = 0
  /\ accepted = [t \in Tokens |-> 0]

FolderIds == DOMAIN folders
FileIds == DOMAIN files

Remove(f, k) == [x \in (DOMAIN f) \ {k} |-> f[x]]
RemoveAll(f, ks) == [x \in (DOMAIN f) \ ks |-> f[x]]

(* --------------------------- FolderService ----------------------------- *)
\* Folder.findOne({businessId, parentFolderId, folderName}) in createFolder
SiblingExists(businessId, parentFolderId, normalizedName) ==
  \E f \in FolderIds :
    /\ folders[f].businessId = businessId
    /\ folders[f].parentFolderId = parentFolderId
    /\ folders[f].folderName = normalizedName

\* addChildFolderToFolder applied to the collection fs
addChildFolderToFolder(fs, parentFolderId, childFolderId) ==
  IF childFolderId \in fs[parentFolderId].folderIds THEN fs
  ELSE [fs EXCEPT ![parentFolderId].folderIds = @ \cup {childFolderId}]

\* mutant: the sibling lookup uses the name as sent, not the sanitized one
createFolderRawName(folderName, userId, businessId, parentFolderId) ==
  LET normalizedName == sanitizeFolderName(Trim(folderName))
      newFolderId == nextId
      args == [folderName |-> folderName, userId |-> userId,
               businessId |-> businessId, parentFolderId |-> parentFolderId]
      folderDoc == [folderName |-> normalizedName, userId |-> userId,
                    businessId |-> businessId, parentFolderId |-> parentFolderId,
                    s3Key |-> folderPrefix(businessId, newFolderId),
                    fileIds |-> {}, folderIds |-> {}]
      saved == folders @@ (newFolderId :> folderDoc)
  IN
  /\ IF SiblingExists(businessId, parentFolderId, folderName)
     THEN /\ last' = [op |-> "createFolder", args |-> args, res |-> "Conflict"]
          /\ UNCHANGED <<folders, nextId>>
     ELSE IF Len(normalizedName) = 0
     THEN \* schema validator: folderName cannot be empty
          /\ last' = [op |-> "createFolder", args |-> args, res |-> "ValidationError"]
          /\ UNCHANGED <<folders, nextId>>
     ELSE IF parentFolderId # NullId /\ parentFolderId \notin FolderIds
     THEN \* folderDoc.save() has run, addChildFolderToFolder throws
          /\ folders' = saved
          /\ nextId' = nextId + 1
          /\ last' = [op |-> "createFolder", args |-> args, res |-> "ParentNotFound"]
     ELSE /\ folders' = IF parentFolderId # NullId
                        THEN addChildFolderToFolder(saved, parentFolderId, newFolderId)
                        ELSE saved
          /\ nextId' = nextId + 1
          /\ last' = [op |-> "createFolder", args |-> args, res |-> "ok"]
  /\ UNCHANGED <<files, blobs, perms, uploads, inflight, userRefreshToken, now, accepted>>

createFolder(folderName, userId, businessId, parentFolderId) ==
  LET normalizedName == sanitizeFolderName(Trim(folderName))
      newFolderId == nextId
      args == [folderName |-> folderName, userId |-> userId,
               businessId |-> businessId, parentFolderId |-> parentFolderId]
      folderDoc == [folderName |-> normalizedName, userId |-> userId,
                    businessId |-> businessId, parentFolderId |-> parentFolderId,
                    s3Key |-> folderPrefix(businessId, newFolderId),
                    fileIds |-> {}, folderIds |-> {}]
      saved == folders @@ (newFolderId :> folderDoc)
  IN
  /\ IF SiblingExists(businessId, parentFolderId, normalizedName)
     THEN /\ last' = [op |-> "createFolder", args |-> args, res |-> "Conflict"]
          /\ UNCHANGED <<folders, nextId>>
     ELSE IF Len(normalizedName) = 0
     THEN \* schema validator: folderName cannot be empty
          /\ last' = [op |-> "createFolder", args |-> args, res |-> "ValidationError"]
          /\ UNCHANGED <<folders, nextId>>
     ELSE IF parentFolderId # NullId /\ parentFolderId \notin FolderIds
     THEN \* folderDoc.save() has run, addChildFolderToFolder throws
          /\ folders' = saved
          /\ nextId' = nextId + 1
          /\ last' = [op |-> "createFolder", args |-> args, res |-> "ParentNotFound"]
     ELSE /\ folders' = IF parentFolderId # NullId
                        THEN addChildFolderToFolder(saved, parentFolderId, newFolderId)
                        ELSE saved
          /\ nextId' = nextId + 1
          /\ last' = [op |-> "createFolder", args |-> args, res |-> "ok"]
  /\ UNCHANGED <<files, blobs, perms, uploads, inflight, userRefreshToken, now, accepted>>

(* payload fields that an update request may carry *)
Has(payload, field) == field \in DOMAIN payload

\* { ...payload } without one field
Drop(payload, field) == [k \in (DOMAIN payload) \ {field} |-> payload[k]]
\* Mongoose casts an update document: the paths under the $set operator and
\* the top-level keys that are not operators are all set
CastUpdate(update) ==
  IF Has(update, "$set") THEN update["$set"] @@ Drop(update, "$set") ELSE update
\* findByIdAndUpdate(id, update): the schema fields named by update are set
ApplyUpdate(doc, update) ==
  LET fields == CastUpdate(update)
  IN [k \in DOMAIN doc |-> IF k \in DOMAIN fields THEN fields[k] ELSE doc[k]]

\* the update document that updateFolder hands to findByIdAndUpdate
FolderUpdate(folderData) ==
  LET renamed == IF Has(folderData, "folderName") /\ Len(folderData.folderName) > 0
                 THEN [folderData EXCEPT
                         !.folderName = sanitizeFolderName(Trim(folderData.folderName))]
                 ELSE folderData
  IN Drop(renamed, "s3Key")

updateFolder(id, folderData) ==
  LET args == [id |-> id, folderData |-> folderData] IN
  /\ IF id \in FolderIds
     THEN /\ folders' = [folders EXCEPT ![id] = ApplyUpdate(@, FolderUpdate(folderData))]
          /\ last' = [op |-> "updateFolder", args |-> args, res |-> "ok"]
     ELSE /\ UNCHANGED folders
          /\ last' = [op |-> "updateFolder", args |-> args, res |-> "NotFound"]
  /\ UNCHANGED <<files, blobs, perms, uploads, nextId, inflight, userRefreshToken, now, accepted>>

\* S3Service.deletePrefix
deletePrefix(bl, prefix) == {k \in bl : ~HasPrefix(k, prefix)}
\* File.deleteMany({ folderId })
deleteManyFiles(fl, folderId) ==
  RemoveAll(fl, {x \in DOMAIN fl : fl[x].folderId = folderId})

\* the order in which an id array is pushed onto the work stack
RECURSIVE IdList(_)
IdList(S) ==
  IF S = {} THEN <<>>
  ELSE LET m == CHOOSE x \in S : \A y \in S : x <= y
       IN <<m>> \o IdList(S \ {m})

\* mutant: the loop does not push the nested folder ids
RECURSIVE WalkSubtreeNoPush(_, _, _, _)
WalkSubtreeNoPush(folderIdStack, fs, fl, bl) ==
  IF Len(folderIdStack) = 0 THEN [folders |-> fs, files |-> fl, blobs |-> bl]
  ELSE
    LET childFolderId == folderIdStack[Len(folderIdStack)]
        rest == SubSeq(folderIdStack, 1, Len(folderIdStack) - 1)
    IN IF childFolderId \notin DOMAIN fs
       THEN WalkSubtreeNoPush(rest, fs, fl, bl)
       ELSE WalkSubtreeNoPush(rest,
                              Remove(fs, childFolderId),
                              deleteManyFiles(fl, childFolderId),
                              deletePrefix(bl, fs[childFolderId].s3Key))

\* the while loop of deleteFolder over the work stack
RECURSIVE WalkSubtree(_, _, _, _)
WalkSubtree(folderIdStack, fs, fl, bl) ==
  IF Len(folderIdStack) = 0 THEN [folders |-> fs, files |-> fl, blobs |-> bl]
  ELSE
    LET childFolderId == folderIdStack[Len(folderIdStack)]
        rest == SubSeq(folderIdStack, 1, Len(folderIdStack) - 1)
    IN IF childFolderId \notin DOMAIN fs
       THEN WalkSubtree(rest, fs, fl, bl)
       ELSE WalkSubtree(rest \o IdList(fs[childFolderId].folderIds),
                        Remove(fs, childFolderId),
                        deleteManyFiles(fl, childFolderId),
                        deletePrefix(bl, fs[childFolderId].s3Key))

\* Folder.findByIdAndUpdate(parent, { $pull: { folderIds: id } })
pullFolderId(fs, parentFolderId, id) ==
  IF parentFolderId \in DOMAIN fs
  THEN [fs EXCEPT ![parentFolderId].folderIds = @ \ {id}]
  ELSE fs

deleteFolder(id) ==
  LET args == [id |-> id] IN
  /\ IF id \notin FolderIds
     THEN /\ last' = [op |-> "deleteFolder", args |-> args, res |-> "NotFound"]
          /\ UNCHANGED <<folders, files, blobs>>
     ELSE
       LET rootFolder == folders[id]
           walked == WalkSubtree(IdList(rootFolder.folderIds),
                                 folders,
                                 deleteManyFiles(files, id),
                                 deletePrefix(blobs, rootFolder.s3Key))
           unlinked == IF rootFolder.parentFolderId # NullId
                       THEN pullFolderId(walked.folders, rootFolder.parentFolderId, id)
                       ELSE walked.folders
           after == RemoveAll(unlinked, {id})
       IN /\ folders' = after
          /\ files' = walked.files
          /\ blobs' = walked.blobs
          /\ last' = [op |-> "deleteFolder", args |-> args, res |-> "ok",
                      removed |-> [folders |-> FolderIds \ DOMAIN after,
                                   files |-> FileIds \ DOMAIN walked.files,
                                   blobs |-> blobs \ walked.blobs]]
  /\ UNCHANGED <<perms, uploads, nextId, inflight, userRefreshToken, now, accepted>>

(* ------------------ createFolder, await by await ----------------------- *)
Finish(c) == [inflight EXCEPT ![c] = Idle]
CreateArgs(call) ==
  [folderName |-> call.folderName, userId |-> call.userId,
   businessId |-> call.businessId, parentFolderId |-> call.parentFolderId]

\* createFolder up to the result of the sibling Folder.findOne
createFolderCheck(c, folderName, userId, businessId, parentFolderId) ==
  LET normalizedName == sanitizeFolderName(Trim(folderName))
      call == [pc |-> "save", folderName |-> folderName, userId |-> userId,
               businessId |-> businessId, parentFolderId |-> parentFolderId,
               normalizedName |-> normalizedName, newFolderId |-> nextId]
  IN
  /\ inflight[c] = Idle
  /\ IF SiblingExists(businessId, parentFolderId, normalizedName)
     THEN /\ last' = [op |-> "createFolder", args |-> CreateArgs(call), res |-> "Conflict"]
          /\ UNCHANGED <<inflight, nextId>>
     ELSE /\ inflight' = [inflight EXCEPT ![c] = call]
          /\ nextId' = nextId + 1
          /\ UNCHANGED last
  /\ UNCHANGED <<folders, files, blobs, perms, uploads, userRefreshToken, now, accepted>>

\* folderDoc.save()
createFolderSave(c) ==
  LET call == inflight[c]
      folderDoc == [folderName |-> call.normalizedName, userId |-> call.userId,
                    businessId |-> call.businessId,
                    parentFolderId |-> call.parentFolderId,
                    s3Key |-> folderPrefix(call.businessId, call.newFolderId),
                    fileIds |-> {}, folderIds |-> {}]
  IN
  /\ call.pc = "save"
  /\ IF Len(call.normalizedName) = 0
     THEN /\ UNCHANGED folders
          /\ inflight' = Finish(c)
          /\ last' = [op |-> "createFolder", args |-> CreateArgs(call),
                      res |-> "ValidationError"]
     ELSE /\ folders' = folders @@ (call.newFolderId :> folderDoc)
          /\ IF call.parentFolderId = NullId
             THEN /\ inflight' = Finish(c)
                  /\ last' = [op |-> "createFolder", args |-> CreateArgs(call),
                              res |-> "ok"]
             ELSE /\ inflight' = [inflight EXCEPT ![c].pc = "findParent"]
                  /\ UNCHANGED last
  /\ UNCHANGED <<files, blobs, perms, uploads, nextId, userRefreshToken, now, accepted>>

\* addChildFolderToFolder up to the result of Folder.findById(parent)
createFolderFindParent(c) ==
  LET call == inflight[c] IN
  /\ call.pc = "findParent"
  /\ IF call.parentFolderId \notin FolderIds
     THEN /\ inflight' = Finish(c)
          /\ last' = [op |-> "createFolder", args |-> CreateArgs(call),
                      res |-> "ParentNotFound"]
     ELSE IF call.newFolderId \in folders[call.parentFolderId].folderIds
     THEN /\ inflight' = Finish(c)
          /\ last' = [op |-> "createFolder", args |-> CreateArgs(call), res |-> "ok"]
     ELSE /\ inflight' = [inflight EXCEPT ![c] =
               [call EXCEPT !.pc = "saveParent"] @@
               [readFolderIds |-> folders[call.parentFolderId].folderIds]]
          /\ UNCHANGED last
  /\ UNCHANGED <<folders, files, blobs, perms, uploads, nextId, userRefreshToken, now, accepted>>

\* parentFolderDoc.folderIds = [...read, child]; parentFolderDoc.save().
\* When the stored array has changed since it was read, the save either
\* replaces it by the array built from the stale read or is rejected by the
\* version check of the document layer.
createFolderSaveParent(c) ==
  LET call == inflight[c]
      parent == call.parentFolderId
      written == [folders EXCEPT ![parent].folderIds =
                    call.readFolderIds \cup {call.newFolderId}]
  IN
  /\ call.pc = "saveParent"
  /\ inflight' = Finish(c)
  /\ IF parent \notin FolderIds
     THEN /\ UNCHANGED folders
          /\ last' = [op |-> "createFolder", args |-> CreateArgs(call),
                      res |-> "DocumentNotFound"]
     ELSE IF folders[parent].folderIds = call.readFolderIds
     THEN /\ folders' = written
          /\ last' = [op |-> "createFolder", args |-> CreateArgs(call), res |-> "ok"]
     ELSE \/ /\ folders' = written
             /\ last' = [op |-> "createFolder", args |-> CreateArgs(call), res |-> "ok"]
          \/ /\ UNCHANGED folders
             /\ last' = [op |-> "createFolder", args |-> CreateArgs(call),
                         res |-> "VersionError"]
  /\ UNCHANGED <<files, blobs, perms, uploads, nextId, userRefreshToken, now, accepted>>

(* ------------------ deleteFolder, await by await ----------------------- *)
\* where the walk resumes once the work stack has been looked at
AfterLoop(rootFolder, folderIdStack) ==
  IF Len(folderIdStack) > 0 THEN "pop"
  ELSE IF rootFolder.parentFolderId # NullId THEN "unlink" ELSE "rootDelete"

\* deleteFolder up to the result of Folder.findById(id)
deleteFolderFind(c, id) ==
  /\ inflight[c] = Idle
  /\ IF id \notin FolderIds
     THEN /\ last' = [op |-> "deleteFolder", args |-> [id |-> id], res |-> "NotFound"]
          /\ UNCHANGED inflight
     ELSE /\ inflight' = [inflight EXCEPT ![c] =
               [pc |-> "rootPrefix", op |-> "deleteFolder", id |-> id,
                rootFolder |-> folders[id], folderIdStack |-> <<>>,
                removed |-> [folders |-> {}, files |-> {}, blobs |-> {}],
                skipped |-> {}]]
          /\ UNCHANGED last
  /\ UNCHANGED <<folders, files, blobs, perms, uploads, nextId, userRefreshToken, now, accepted>>

\* 1) S3Service.deletePrefix(rootFolder.s3Key)
deleteFolderRootPrefix(c) ==
  LET call == inflight[c]
      kept == deletePrefix(blobs, call.rootFolder.s3Key)
  IN
  /\ call.pc = "rootPrefix"
  /\ blobs' = kept
  /\ inflight' = [inflight EXCEPT ![c].pc = "rootFiles",
                                  ![c].removed.blobs = @ \cup (blobs \ kept)]
  /\ UNCHANGED <<folders, files, perms, uploads, nextId, last, userRefreshToken, now, accepted>>

\* 2) File.deleteMany({ folderId: id }), then the work stack is built
deleteFolderRootFiles(c) ==
  LET call == inflight[c]
      kept == deleteManyFiles(files, call.id)
      stack == IdList(call.rootFolder.folderIds)
  IN
  /\ call.pc = "rootFiles"
  /\ files' = kept
  /\ inflight' = [inflight EXCEPT ![c].pc = AfterLoop(call.rootFolder, stack),
                                  ![c].folderIdStack = stack,
                                  ![c].removed.files = @ \cup (FileIds \ DOMAIN kept)]
  /\ UNCHANGED <<folders, blobs, perms, uploads, nextId, last, userRefreshToken, now, accepted>>

\* mutant: an id of no folder is left on the work stack
deleteFolderPopKeepsMissing(c) ==
  LET call == inflight[c]
      childFolderId == call.folderIdStack[Len(call.folderIdStack)]
      rest == SubSeq(call.folderIdStack, 1, Len(call.folderIdStack) - 1)
  IN
  /\ call.pc = "pop"
  /\ inflight' = [inflight EXCEPT ![c] =
       IF childFolderId \notin FolderIds
       THEN [call EXCEPT !.skipped = @ \cup {childFolderId}]
       ELSE [pc |-> "childPrefix", op |-> call.op, id |-> call.id,
             rootFolder |-> call.rootFolder, folderIdStack |-> rest,
             removed |-> call.removed, skipped |-> call.skipped,
             childFolderId |-> childFolderId, childFolder |-> folders[childFolderId]]]
  /\ UNCHANGED <<folders, files, blobs, perms, uploads, nextId, last, userRefreshToken, now, accepted>>

\* folderIdStack.pop() and Folder.findById(childFolderId)
deleteFolderPop(c) ==
  LET call == inflight[c]
      childFolderId == call.folderIdStack[Len(call.folderIdStack)]
      rest == SubSeq(call.folderIdStack, 1, Len(call.folderIdStack) - 1)
  IN
  /\ call.pc = "pop"
  /\ inflight' = [inflight EXCEPT ![c] =
       IF childFolderId \notin FolderIds
       THEN [call EXCEPT !.pc = AfterLoop(call.rootFolder, rest), !.folderIdStack = rest,
                         !.skipped = @ \cup {childFolderId}]
       ELSE [pc |-> "childPrefix", op |-> call.op, id |-> call.id,
             rootFolder |-> call.rootFolder, folderIdStack |-> rest,
             removed |-> call.removed, skipped |-> call.skipped,
             childFolderId |-> childFolderId, childFolder |-> folders[childFolderId]]]
  /\ UNCHANGED <<folders, files, blobs, perms, uploads, nextId, last, userRefreshToken, now, accepted>>

\* S3Service.deletePrefix(childFolder.s3Key)
deleteFolderChildPrefix(c) ==
  LET call == inflight[c]
      kept == deletePrefix(blobs, call.childFolder.s3Key)
  IN
  /\ call.pc = "childPrefix"
  /\ blobs' = kept
  /\ inflight' = [inflight EXCEPT ![c].pc = "childFiles",
                                  ![c].removed.blobs = @ \cup (blobs \ kept)]
  /\ UNCHANGED <<folders, files, perms, uploads, nextId, last, userRefreshToken, now, accepted>>

\* File.deleteMany({ folderId: childFolderId }), then the nested ids are pushed
deleteFolderChildFiles(c) ==
  LET call == inflight[c]
      kept == deleteManyFiles(files, call.childFolderId)
  IN
  /\ call.pc = "childFiles"
  /\ files' = kept
  /\ inflight' = [inflight EXCEPT
       ![c].pc = "childDelete",
       ![c].folderIdStack = @ \o IdList(call.childFolder.folderIds),
       ![c].removed.files = @ \cup (FileIds \ DOMAIN kept)]
  /\ UNCHANGED <<folders, blobs, perms, uploads, nextId, last, userRefreshToken, now, accepted>>

\* Folder.findByIdAndDelete(childFolderId)
deleteFolderChildDelete(c) ==
  LET call == inflight[c] IN
  /\ call.pc = "childDelete"
  /\ folders' = RemoveAll(folders, {call.childFolderId})
  /\ inflight' = [inflight EXCEPT
       ![c].pc = AfterLoop(call.rootFolder, call.folderIdStack),
       ![c].removed.folders = @ \cup ({call.childFolderId} \cap FolderIds)]
  /\ UNCHANGED <<files, blobs, perms, uploads, nextId, last, userRefreshToken, now, accepted>>

\* Folder.findByIdAndUpdate(parent, { $pull: { folderIds: id } })
deleteFolderUnlink(c) ==
  LET call == inflight[c] IN
  /\ call.pc = "unlink"
  /\ folders' = pullFolderId(folders, call.rootFolder.parentFolderId, call.id)
  /\ inflight' = [inflight EXCEPT ![c].pc = "rootDelete"]
  /\ UNCHANGED <<files, blobs, perms, uploads, nextId, last, userRefreshToken, now, accepted>>

\* Folder.findByIdAndDelete(id), and the call returns
deleteFolderRootDelete(c) ==
  LET call == inflight[c] IN
  /\ call.pc = "rootDelete"
  /\ folders' = RemoveAll(folders, {call.id})
  /\ inflight' = Finish(c)
  /\ last' = [op |-> "deleteFolder", args |-> [id |-> call.id],
              res |-> IF call.id \in FolderIds THEN "ok" ELSE "Null",
              removed |-> [call.removed EXCEPT
                             !.folders = @ \cup ({call.id} \cap FolderIds)],
              skipped |-> call.skipped]
  /\ UNCHANGED <<files, blobs, perms, uploads, nextId, userRefreshToken, now, accepted>>

\* the process dies, or a dependency fails and the call throws: the call is
\* abandoned where it stands and nothing is undone
deleteFolderStops(c) ==
  LET call == inflight[c] IN
  /\ call.pc \in {"rootPrefix", "rootFiles", "pop", "childPrefix", "childFiles",
                  "childDelete", "unlink", "rootDelete"}
  /\ inflight' = Finish(c)
  /\ last' = [op |-> "deleteFolder", args |-> [id |-> call.id], res |-> "stopped",
              at |-> call.pc]
  /\ UNCHANGED <<folders, files, blobs, perms, uploads, nextId, userRefreshToken, now, accepted>>

(* ---------------------------- FileService ------------------------------ *)
startUpload(businessId, userId, folderId, fileName) ==
  LET normalizedFileName == sanitizeFilename(Trim(fileName))
      fileId == nextId
      args == [businessId |-> businessId, userId |-> userId,
               folderId |-> folderId, fileName |-> fileName]
      keyPrefix == IF folderId # NullId THEN folders[folderId].s3Key
                   ELSE rootPrefix(businessId)
  IN
  /\ IF folderId # NullId /\ folderId \notin FolderIds
     THEN /\ last' = [op |-> "startUpload", args |-> args, res |-> "NotFound"]
          /\ UNCHANGED <<uploads, nextId>>
     ELSE /\ uploads' = uploads \cup
                 {[fileId |-> fileId, folderId |-> folderId,
                   s3Key |-> FileKey(keyPrefix, fileId, normalizedFileName)]}
          /\ nextId' = nextId + 1
          /\ last' = [op |-> "startUpload", args |-> args, res |-> "ok"]
  /\ UNCHANGED <<folders, files, blobs, perms, inflight, userRefreshToken, now, accepted>>

\* the client PUTs the bytes to the URL that presignUpload signed for the key
putObject(key) ==
  /\ key \notin blobs
  /\ blobs' = blobs \cup {key}
  /\ last' = [op |-> "putObject", args |-> [key |-> key], res |-> "ok"]
  /\ UNCHANGED <<folders, files, perms, uploads, nextId, inflight, userRefreshToken, now, accepted>>

\* Folder.findOneAndUpdate({_id}, { $addToSet: { fileIds } })
addFileToFolder(fs, fileId, folderId) ==
  [fs EXCEPT ![folderId].fileIds = @ \cup {fileId}]

completeUpload(fileId, userId, businessId, folderId, fileName, s3Key) ==
  LET args == [fileId |-> fileId, userId |-> userId, businessId |-> businessId,
               folderId |-> folderId, fileName |-> fileName, s3Key |-> s3Key]
      newFileDocument == [userId |-> userId, businessId |-> businessId,
                          folderId |-> folderId,
                          fileName |-> sanitizeFilename(Trim(fileName)),
                          s3Key |-> s3Key]
  IN
  /\ IF fileId \in FileIds \/ (\E x \in FileIds : files[x].s3Key = s3Key)
     THEN \* duplicate _id, or duplicate s3Key under the unique index
          /\ last' = [op |-> "completeUpload", args |-> args, res |-> "DuplicateKey"]
          /\ UNCHANGED <<files, folders>>
     ELSE IF folderId # NullId /\ folderId \notin FolderIds
     THEN \* the File is saved, addFileToFolder throws
          /\ files' = files @@ (fileId :> newFileDocument)
          /\ last' = [op |-> "completeUpload", args |-> args, res |-> "FolderNotFound"]
          /\ UNCHANGED folders
     ELSE /\ files' = files @@ (fileId :> newFileDocument)
          /\ folders' = IF folderId # NullId
                        THEN addFileToFolder(folders, fileId, folderId)
                        ELSE folders
          /\ last' = [op |-> "completeUpload", args |-> args, res |-> "ok"]
  /\ UNCHANGED <<blobs, perms, uploads, nextId, inflight, userRefreshToken, now, accepted>>

\* const { s3Key: _ignoreS3Key, ...safeUpdate } = fileData
FileUpdate(fileData) == Drop(fileData, "s3Key")

updateFile(id, fileData) ==
  LET args == [id |-> id, fileData |-> fileData] IN
  /\ IF id \in FileIds
     THEN /\ files' = [files EXCEPT ![id] = ApplyUpdate(@, FileUpdate(fileData))]
          /\ last' = [op |-> "updateFile", args |-> args, res |-> "ok"]
     ELSE /\ UNCHANGED files
          /\ last' = [op |-> "updateFile", args |-> args, res |-> "NotFound"]
  /\ UNCHANGED <<folders, blobs, perms, uploads, nextId, inflight, userRefreshToken, now, accepted>>

\* Folder.findByIdAndUpdate(folderId, { $pull: { fileIds: id } })
pullFileId(fs, folderId, id) ==
  IF folderId \in DOMAIN fs
  THEN [fs EXCEPT ![folderId].fileIds = @ \ {id}]
  ELSE fs

\* S3Service.deleteObject
deleteObject(bl, key) == bl \ {key}

\* mutant: an id with no File record is unlinked from the folders that list it
\* and the call succeeds
deleteFileSilent(id) ==
  LET args == [id |-> id] IN
  /\ IF id \notin FileIds
     THEN /\ last' = [op |-> "deleteFile", args |-> args, res |-> "ok"]
          /\ folders' = [f \in FolderIds |->
                           [folders[f] EXCEPT !.fileIds = @ \ {id}]]
          /\ UNCHANGED <<files, blobs>>
     ELSE LET fileDocument == files[id] IN
          /\ folders' = IF fileDocument.folderId # NullId
                        THEN pullFileId(folders, fileDocument.folderId, id)
                        ELSE folders
          /\ blobs' = deleteObject(blobs, fileDocument.s3Key)
          /\ files' = Remove(files, id)
          /\ last' = [op |-> "deleteFile", args |-> args, res |-> "ok"]
  /\ UNCHANGED <<perms, uploads, nextId, inflight, userRefreshToken, now, accepted>>

deleteFile(id) ==
  LET args == [id |-> id] IN
  /\ IF id \notin FileIds
     THEN /\ last' = [op |-> "deleteFile", args |-> args, res |-> "NotFound"]
          /\ UNCHANGED <<folders, files, blobs>>
     ELSE LET fileDocument == files[id] IN
          /\ folders' = IF fileDocument.folderId # NullId
                        THEN pullFileId(folders, fileDocument.folderId, id)
                        ELSE folders
          /\ blobs' = deleteObject(blobs, fileDocument.s3Key)
          /\ files' = Remove(files, id)
          /\ last' = [op |-> "deleteFile", args |-> args, res |-> "ok"]
  /\ UNCHANGED <<perms, uploads, nextId, inflight, userRefreshToken, now, accepted>>

(* -------------------------- PermissionService -------------------------- *)
(* The _id of a Permission document is opaque to the code, which only     *)
(* compares ids.  A document is named by the fields that no update ever    *)
(* changes (userId, targetId, targetType) and a serial number among the    *)
(* live documents that agree on them.                                      *)
PermId(userId, targetId, targetType, serial) ==
  [userId |-> userId, targetId |-> targetId, targetType |-> targetType,
   serial |-> serial]

\* new Types.ObjectId() for a Permission document
FreshPermId(ps, userId, targetId, targetType) ==
  PermId(userId, targetId, targetType,
         CHOOSE n \in 1..(Cardinality(ps) + 1) :
           /\ \A p \in ps : p.id # PermId(userId, targetId, targetType, n)
           /\ \A m \in 1..(n - 1) :
                \E p \in ps : p.id = PermId(userId, targetId, targetType, m))

GlobalDoc(ps, userId, accessLevels) ==
  [id |-> FreshPermId(ps, userId, NullId, "none"), userId |-> userId,
   isGlobal |-> TRUE, targetId |-> NullId, targetType |-> "none",
   accessLevel |-> accessLevels]

SpecificDoc(ps, userId, targetId, targetType, accessLevels) ==
  [id |-> FreshPermId(ps, userId, targetId, targetType), userId |-> userId,
   isGlobal |-> FALSE, targetId |-> targetId, targetType |-> targetType,
   accessLevel |-> accessLevels]

\* the document that findOne / updateOne selects among the matching ones
FirstMatch(matching) ==
  CHOOSE p \in matching : \A q \in matching : p.id.serial <= q.id.serial

grantGlobalPermission(userId, accessLevels) ==
  LET args == [userId |-> userId, accessLevel |-> accessLevels]
      matching == {p \in perms : p.userId = userId /\ p.isGlobal}
  IN
  /\ IF matching # {}
     THEN LET existingPermission == FirstMatch(matching) IN
          perms' = (perms \ {existingPermission}) \cup
                     {[existingPermission EXCEPT !.accessLevel = accessLevels]}
     ELSE perms' = perms \cup {GlobalDoc(perms, userId, accessLevels)}
  /\ last' = [op |-> "grantGlobalPermission", args |-> args, res |-> "ok"]
  /\ UNCHANGED <<folders, files, blobs, uploads, nextId, inflight, userRefreshToken, now, accepted>>

\* filter { userId, targetId, targetType }
MatchSpecific(ps, userId, targetId, targetType) ==
  {p \in ps : p.userId = userId /\ p.targetId = targetId /\ p.targetType = targetType}

\* mutant: a grant always creates a document
UpsertSpecificAlwaysCreate(ps, userId, targetId, targetType, accessLevels) ==
  ps \cup {SpecificDoc(ps, userId, targetId, targetType, accessLevels)}

\* mutant: the granted levels are merged into the levels already stored
UpsertSpecificUnion(ps, userId, targetId, targetType, accessLevels) ==
  LET matching == MatchSpecific(ps, userId, targetId, targetType) IN
  IF matching # {}
  THEN LET existing == FirstMatch(matching) IN
       (ps \ {existing}) \cup
         {[existing EXCEPT !.accessLevel = @ \cup accessLevels, !.isGlobal = FALSE]}
  ELSE ps \cup {SpecificDoc(ps, userId, targetId, targetType, accessLevels)}

\* find-then-save-or-create, and updateOne with upsert: true
UpsertSpecific(ps, userId, targetId, targetType, accessLevels) ==
  LET matching == MatchSpecific(ps, userId, targetId, targetType) IN
  IF matching # {}
  THEN LET existing == FirstMatch(matching) IN
       (ps \ {existing}) \cup
         {[existing EXCEPT !.accessLevel = accessLevels, !.isGlobal = FALSE]}
  ELSE ps \cup {SpecificDoc(ps, userId, targetId, targetType, accessLevels)}

\* mutant: a lookup that stops at the direct children
GraphLookupOneLevel(frontier, found) ==
  {f \in FolderIds : folders[f].parentFolderId \in frontier}

\* $graphLookup from the folder over parentFolderId, unwound
RECURSIVE GraphLookup(_, _)
GraphLookup(frontier, found) ==
  LET more == {f \in FolderIds : folders[f].parentFolderId \in frontier} \ found IN
  IF more = {} THEN found ELSE GraphLookup(more, found \cup more)

nestedFolders(folderId) ==
  IF folderId \in FolderIds THEN GraphLookup({folderId}, {}) ELSE {}

\* mutant: the file query without its folderId filter
nestedFilesUnfiltered(folderId) == FileIds

\* File.find({ folderId: { $in: allFolderIds } })
nestedFiles(folderId) ==
  LET allFolderIds == {folderId} \cup nestedFolders(folderId) IN
  {x \in FileIds : files[x].folderId \in allFolderIds}

getAllNestedFoldersAndFiles(folderId) ==
  LET fo == IdList(nestedFolders(folderId))
      fi == IdList(nestedFiles(folderId))
  IN [i \in 1..Len(fo) |-> [id |-> fo[i], type |-> "folder"]] \o
     [i \in 1..Len(fi) |-> [id |-> fi[i], type |-> "file"]]

\* Permission.bulkWrite of one upserting updateOne per nested item
RECURSIVE bulkWrite(_, _, _, _)
bulkWrite(ps, nestedItems, userId, accessLevels) ==
  IF Len(nestedItems) = 0 THEN ps
  ELSE bulkWrite(UpsertSpecific(ps, userId, nestedItems[1].id, nestedItems[1].type,
                                accessLevels),
                 Tail(nestedItems), userId, accessLevels)

propagatePermissions(ps, userId, folderId, accessLevels) ==
  bulkWrite(ps, getAllNestedFoldersAndFiles(folderId), userId, accessLevels)

grantSpecificPermission(userId, targetId, targetType, accessLevels) ==
  LET args == [userId |-> userId, targetId |-> targetId,
               targetType |-> targetType, accessLevel |-> accessLevels]
      direct == UpsertSpecific(perms, userId, targetId, targetType, accessLevels)
      done == IF targetType = "folder"
              THEN propagatePermissions(direct, userId, targetId, accessLevels)
              ELSE direct
  IN
  /\ perms' = done
  /\ last' = [op |-> "grantSpecificPermission", args |-> args, res |-> "ok"]
  /\ UNCHANGED <<folders, files, blobs, uploads, nextId, inflight, userRefreshToken, now, accepted>>

\* mutant: revoking a folder grant also removes the user's records on targets
\* that have a parent folder
revokePermissionCascade(permissionId) ==
  /\ perms' = {p \in perms :
                 /\ p.id # permissionId
                 /\ \/ p.userId # permissionId.userId
                    \/ p.isGlobal
                    \/ permissionId.targetType # "folder"
                    \/ IF p.targetType = "folder"
                       THEN p.targetId \in FolderIds
                              /\ folders[p.targetId].parentFolderId = NullId
                       ELSE p.targetId \in FileIds
                              /\ files[p.targetId].folderId = NullId}
  /\ last' = [op |-> "revokePermission", args |-> [permissionId |-> permissionId],
              res |-> "ok"]
  /\ UNCHANGED <<folders, files, blobs, uploads, nextId, inflight, userRefreshToken, now, accepted>>

\* Permission.findByIdAndDelete(permissionId)
revokePermission(permissionId) ==
  /\ perms' = {p \in perms : p.id # permissionId}
  /\ last' = [op |-> "revokePermission", args |-> [permissionId |-> permissionId],
              res |-> "ok"]
  /\ UNCHANGED <<folders, files, blobs, uploads, nextId, inflight, userRefreshToken, now, accepted>>

(* ------------- PermissionService calls, await by await ----------------- *)
(* A grant that runs while another request is served: each step runs the   *)
(* call from one await to the next.  The propagation of a folder grant,    *)
(* its lookup and its bulkWrite, is taken as one step.                     *)
IdsIn(ps) == {p.id : p \in ps}
\* existingPermission.accessLevel = accessLevels; existingPermission.save()
SaveLevels(ps, existing, accessLevels) ==
  {IF p.id \in existing THEN [p EXCEPT !.accessLevel = accessLevels] ELSE p : p \in ps}

\* grantGlobalPermission up to the result of Permission.findOne
grantGlobalFind(c, userId, accessLevels) ==
  LET matching == {p \in perms : p.userId = userId /\ p.isGlobal} IN
  /\ inflight[c] = Idle
  /\ inflight' = [inflight EXCEPT ![c] =
       [pc |-> "globalWrite", userId |-> userId, accessLevel |-> accessLevels,
        existingPermission |-> IF matching # {} THEN {FirstMatch(matching).id} ELSE {}]]
  /\ UNCHANGED <<folders, files, blobs, perms, uploads, nextId, last, userRefreshToken, now, accepted>>

\* grantGlobalPermission from the findOne result: save, or create
grantGlobalWrite(c) ==
  LET call == inflight[c]
      gone == call.existingPermission # {} /\ call.existingPermission \cap IdsIn(perms) = {}
  IN
  /\ call.pc = "globalWrite"
  /\ perms' = IF call.existingPermission # {}
              THEN SaveLevels(perms, call.existingPermission, call.accessLevel)
              ELSE perms \cup {GlobalDoc(perms, call.userId, call.accessLevel)}
  /\ inflight' = [inflight EXCEPT ![c] = Idle]
  /\ last' = [op |-> "grantGlobalPermission",
              args |-> [userId |-> call.userId, accessLevel |-> call.accessLevel],
              res |-> IF gone THEN "DocumentNotFound" ELSE "ok"]
  /\ UNCHANGED <<folders, files, blobs, uploads, nextId, userRefreshToken, now, accepted>>

\* grantSpecificPermission up to the result of Permission.findOne
grantSpecificFind(c, userId, targetId, targetType, accessLevels) ==
  LET matching == MatchSpecific(perms, userId, targetId, targetType) IN
  /\ inflight[c] = Idle
  /\ inflight' = [inflight EXCEPT ![c] =
       [pc |-> "specificWrite", userId |-> userId, targetId |-> targetId,
        targetType |-> targetType, accessLevel |-> accessLevels,
        existingPermission |-> IF matching # {} THEN {FirstMatch(matching).id} ELSE {}]]
  /\ UNCHANGED <<folders, files, blobs, perms, uploads, nextId, last, userRefreshToken, now, accepted>>

\* grantSpecificPermission from the findOne result: save, or create
grantSpecificWrite(c) ==
  LET call == inflight[c]
      gone == call.existingPermission # {} /\ call.existingPermission \cap IdsIn(perms) = {}
      args == [userId |-> call.userId, targetId |-> call.targetId,
               targetType |-> call.targetType, accessLevel |-> call.accessLevel]
  IN
  /\ call.pc = "specificWrite"
  /\ perms' = IF call.existingPermission # {}
              THEN SaveLevels(perms, call.existingPermission, call.accessLevel)
              ELSE perms \cup {SpecificDoc(perms, call.userId, call.targetId,
                                           call.targetType, call.accessLevel)}
  /\ IF gone
     THEN /\ inflight' = [inflight EXCEPT ![c] = Idle]
          /\ last' = [op |-> "grantSpecificPermission", args |-> args,
                      res |-> "DocumentNotFound"]
     ELSE IF call.targetType = "folder"
     THEN /\ inflight' = [inflight EXCEPT ![c].pc = "propagate"]
          /\ UNCHANGED last
     ELSE /\ inflight' = [inflight EXCEPT ![c] = Idle]
          /\ last' = [op |-> "grantSpecificPermission", args |-> args, res |-> "ok"]
  /\ UNCHANGED <<folders, files, blobs, uploads, nextId, userRefreshToken, now, accepted>>

\* grantSpecificPermission of a folder: propagatePermissions, then return
grantSpecificPropagate(c) ==
  LET call == inflight[c] IN
  /\ call.pc = "propagate"
  /\ perms' = propagatePermissions(perms, call.userId, call.targetId, call.accessLevel)
  /\ inflight' = [inflight EXCEPT ![c] = Idle]
  /\ last' = [op |-> "grantSpecificPermission",
              args |-> [userId |-> call.userId, targetId |-> call.targetId,
                        targetType |-> call.targetType, accessLevel |-> call.accessLevel],
              res |-> "ok"]
  /\ UNCHANGED <<folders, files, blobs, uploads, nextId, userRefreshToken, now, accepted>>

(* ----------------------------- AuthService ------------------------------ *)
\* "7d" in seconds
REFRESH_TOKEN_EXPIRES_IN == 604800

\* jwt.sign({userId}, secret, {expiresIn}): the token is determined by the
\* user id and the second it is signed in
generateRefreshToken(userId) == [userId |-> userId, iat |-> now]

\* jwt.verify: the signature is the server's and the token has not expired
jwtVerify(token) ==
  token \in Tokens /\ now < token.iat + REFRESH_TOKEN_EXPIRES_IN

\* login with valid credentials
login(userId) ==
  LET refreshToken == generateRefreshToken(userId) IN
  /\ userRefreshToken' = [userRefreshToken EXCEPT ![userId] = refreshToken]
  /\ last' = [op |-> "login", args |-> [userId |-> userId], res |-> refreshToken]
  /\ UNCHANGED <<folders, files, blobs, perms, uploads, nextId, inflight, now, accepted>>

\* refreshAccessToken up to the signing of the new tokens
refreshAccessTokenFind(c, token) ==
  LET reject(code) ==
        /\ last' = [op |-> "refreshAccessToken", args |-> [token |-> token],
                    res |-> code]
        /\ UNCHANGED inflight
  IN
  /\ inflight[c] = Idle
  /\ IF token = NoToken THEN reject("NO_REFRESH_TOKEN")
     ELSE IF ~jwtVerify(token) THEN reject("BAD_REFRESH_TOKEN")
     ELSE IF userRefreshToken[token.userId] # token THEN reject("BAD_REFRESH_TOKEN")
     ELSE /\ inflight' = [inflight EXCEPT ![c] =
                            [pc |-> "rotate", op |-> "refreshAccessToken",
                             token |-> token, userId |-> token.userId,
                             newRefreshToken |-> generateRefreshToken(token.userId)]]
          /\ UNCHANGED last
  /\ UNCHANGED <<folders, files, blobs, perms, uploads, nextId, userRefreshToken, now, accepted>>

\* user.save() of the rotated token, the cookies and the 200
refreshAccessTokenSave(c) ==
  LET call == inflight[c] IN
  /\ call.pc = "rotate"
  /\ userRefreshToken' = [userRefreshToken EXCEPT ![call.userId] = call.newRefreshToken]
  /\ accepted' = [accepted EXCEPT ![call.token] = @ + 1]
  /\ inflight' = Finish(c)
  /\ last' = [op |-> "refreshAccessToken", args |-> [token |-> call.token],
              res |-> "ok"]
  /\ UNCHANGED <<folders, files, blobs, perms, uploads, nextId, now>>

\* logout up to the result of User.findOne({refreshToken})
logoutFind(c, token) ==
  LET found == {u \in Users : userRefreshToken[u] = token} IN
  /\ inflight[c] = Idle
  /\ IF token = NoToken \/ found = {}
     THEN /\ last' = [op |-> "logout", args |-> [token |-> token], res |-> "ok"]
          /\ UNCHANGED inflight
     ELSE /\ \E u \in found :
               inflight' = [inflight EXCEPT ![c] =
                              [pc |-> "clear", op |-> "logout", token |-> token,
                               userId |-> u]]
          /\ UNCHANGED last
  /\ UNCHANGED <<folders, files, blobs, perms, uploads, nextId, userRefreshToken, now, accepted>>

\* user.save() with refreshToken unset, the cleared cookies and the 200
logoutSave(c) ==
  LET call == inflight[c] IN
  /\ call.pc = "clear"
  /\ userRefreshToken' = [userRefreshToken EXCEPT ![call.userId] = NoToken]
  /\ inflight' = Finish(c)
  /\ last' = [op |-> "logout", args |-> [token |-> call.token], res |-> "ok"]
  /\ UNCHANGED <<folders, files, blobs, perms, uploads, nextId, now, accepted>>

\* a second passes
Tick ==
  /\ now' = now + 1
  /\ UNCHANGED <<folders, files, blobs, perms, uploads, nextId, last, inflight, userRefreshToken, accepted>>

(* ------------------------ checkPermission middleware ------------------- *)
isAction(action) == action \in {"read", "write", "create", "delete", "owner"}
\* Types.ObjectId.isValid
IsValidObjectId(id) == id \in Nat /\ id # NullId
NoUser == "anonymous"

\* Permission.exists({ userId, isGlobal: true, accessLevel: action })
hasGlobal(userId, action) ==
  \E p \in perms : p.userId = userId /\ p.isGlobal /\ action \in p.accessLevel

\* mutant: the specific-permission query without its accessLevel filter
hasSpecificAnyLevel(userId, resource, resourceId, action) ==
  \E p \in perms :
    /\ p.userId = userId
    /\ ~p.isGlobal
    /\ p.targetType = resource
    /\ p.targetId = resourceId

\* Permission.exists({ userId, isGlobal: false, targetType, targetId, accessLevel })
hasSpecific(userId, resource, resourceId, action) ==
  \E p \in perms :
    /\ p.userId = userId
    /\ ~p.isGlobal
    /\ p.targetType = resource
    /\ p.targetId = resourceId
    /\ action \in p.accessLevel

\* the owner that the ownership check reads from the resource
ownerId(resource, resourceId) ==
  IF resource = "folder" THEN folders[resourceId].userId ELSE files[resourceId].userId

Exists(resource, resourceId) ==
  IF resource = "folder" THEN resourceId \in FolderIds ELSE resourceId \in FileIds

\* mutant: no ownership shortcut
checkPermissionNoOwner(userId, resource, resourceId, action) ==
  IF ~isAction(action) THEN "PERMISSION_INVALID_ACTION"
  ELSE IF userId = NoUser THEN "NOT_AUTHENTICATED"
  ELSE IF ~IsValidObjectId(resourceId) THEN "INVALID_ID"
  ELSE IF ~Exists(resource, resourceId)
       THEN (IF resource = "folder" THEN "FOLDER_NOT_FOUND" ELSE "FILE_NOT_FOUND")
  ELSE IF hasGlobal(userId, action) THEN "next"
  ELSE IF hasSpecific(userId, resource, resourceId, action) THEN "next"
  ELSE "FORBIDDEN"

\* mutant: a specific record for the resource, when there is one, decides
checkPermissionSpecificDecides(userId, resource, resourceId, action) ==
  IF ~isAction(action) THEN "PERMISSION_INVALID_ACTION"
  ELSE IF userId = NoUser THEN "NOT_AUTHENTICATED"
  ELSE IF ~IsValidObjectId(resourceId) THEN "INVALID_ID"
  ELSE IF ~Exists(resource, resourceId)
       THEN (IF resource = "folder" THEN "FOLDER_NOT_FOUND" ELSE "FILE_NOT_FOUND")
  ELSE IF ownerId(resource, resourceId) = userId THEN "next"
  ELSE IF \E p \in perms : /\ p.userId = userId /\ ~p.isGlobal
                            /\ p.targetType = resource /\ p.targetId = resourceId
       THEN (IF hasSpecific(userId, resource, resourceId, action)
             THEN "next" ELSE "FORBIDDEN")
  ELSE IF hasGlobal(userId, action) THEN "next"
  ELSE "FORBIDDEN"

\* mutant: the global grant is consulted before the resource is fetched
checkPermissionGlobalFirst(userId, resource, resourceId, action) ==
  IF ~isAction(action) THEN "PERMISSION_INVALID_ACTION"
  ELSE IF userId = NoUser THEN "NOT_AUTHENTICATED"
  ELSE IF ~IsValidObjectId(resourceId) THEN "INVALID_ID"
  ELSE IF hasGlobal(userId, action) THEN "next"
  ELSE IF ~Exists(resource, resourceId)
       THEN (IF resource = "folder" THEN "FOLDER_NOT_FOUND" ELSE "FILE_NOT_FOUND")
  ELSE IF ownerId(resource, resourceId) = userId THEN "next"
  ELSE IF hasSpecific(userId, resource, resourceId, action) THEN "next"
  ELSE "FORBIDDEN"

\* mutant: the global grant is looked up before the action and the id are
\* validated
checkPermissionLookupFirst(userId, resource, resourceId, action) ==
  IF userId = NoUser THEN "NOT_AUTHENTICATED"
  ELSE IF hasGlobal(userId, action) THEN "next"
  ELSE IF ~isAction(action) THEN "FORBIDDEN"
  ELSE IF ~IsValidObjectId(resourceId) THEN "INVALID_ID"
  ELSE IF ~Exists(resource, resourceId)
       THEN (IF resource = "folder" THEN "FOLDER_NOT_FOUND" ELSE "FILE_NOT_FOUND")
  ELSE IF ownerId(resource, resourceId) = userId THEN "next"
  ELSE IF hasSpecific(userId, resource, resourceId, action) THEN "next"
  ELSE "FORBIDDEN"

\* the outcome of the middleware: "next" or the code of the AppError
checkPermission(userId, resource, resourceId, action) ==
  IF ~isAction(action) THEN "PERMISSION_INVALID_ACTION"
  ELSE IF userId = NoUser THEN "NOT_AUTHENTICATED"
  ELSE IF ~IsValidObjectId(resourceId) THEN "INVALID_ID"
  ELSE IF ~Exists(resource, resourceId)
       THEN (IF resource = "folder" THEN "FOLDER_NOT_FOUND" ELSE "FILE_NOT_FOUND")
  ELSE IF ownerId(resource, resourceId) = userId THEN "next"
  ELSE IF hasGlobal(userId, action) THEN "next"
  ELSE IF hasSpecific(userId, resource, resourceId, action) THEN "next"
  ELSE "FORBIDDEN"

(* ------------------------------- routes ------------------------------- *)
\* The creation routes after authenticate and the body validators: the
\* checkPermission gate, then the controller.  The paths have no :id
\* parameter, so req.params.id is absent.
CreationRoutes == {"POST /folder", "POST /file/upload/start", "POST /file/upload/complete"}
Gate(route, authUserId, resource, body) ==
  /\ last' = [op |-> route, args |-> [userId |-> authUserId, body |-> body],
              res |-> checkPermission(authUserId, resource, NullId, "write")]
  /\ UNCHANGED <<folders, files, blobs, perms, uploads, nextId, inflight, userRefreshToken, now, accepted>>

\* POST /folder
postFolder(authUserId, body) ==
  IF checkPermission(authUserId, "folder", NullId, "write") = "next"
  THEN createFolder(body.folderName, body.userId, body.businessId, body.parentFolderId)
  ELSE Gate("POST /folder", authUserId, "folder", body)

\* POST /file/upload/start
postUploadStart(authUserId, body) ==
  IF checkPermission(authUserId, "file", NullId, "write") = "next"
  THEN startUpload(body.businessId, body.userId, body.folderId, body.fileName)
  ELSE Gate("POST /file/upload/start", authUserId, "file", body)

\* POST /file/upload/complete
postUploadComplete(authUserId, body) ==
  IF checkPermission(authUserId, "file", NullId, "write") = "next"
  THEN completeUpload(body.fileId, body.userId, body.businessId, body.folderId,
                      body.fileName, body.s3Key)
  ELSE Gate("POST /file/upload/complete", authUserId, "file", body)

(* --------------------------- specifications ---------------------------- *)
Owner == "u1"
ShortNames == { <<" ", "a", " ", "b">>, LongName("y") }
Parents == {NullId} \cup FolderIds

\* Folder names: create, rename and delete folders of two workspaces
CreateNamed ==
  \E n \in RawFolderNames, b \in Businesses, p \in Parents :
    nextId <= MaxNamedFolders /\ createFolder(n, Owner, b, p)
RenameNamed ==
  \E id \in FolderIds, n \in RawFolderNames : updateFolder(id, [folderName |-> n])
DeleteNamed == \E id \in FolderIds : deleteFolder(id)
NextNames == CreateNamed \/ RenameNamed \/ DeleteNamed
SpecNames == Init /\ [][NextNames]_vars

\* Hierarchy lifecycle: folders, uploads, blobs and deletes, by a client that
\* uploads the bytes before it completes the upload into the folder it named
CreateBuild(cap) ==
  \E n \in ShortNames, p \in Parents :
    /\ nextId <= cap
    /\ ~SiblingExists("w1", p, sanitizeFolderName(Trim(n)))
    /\ createFolder(n, Owner, "w1", p)
StartBuild(cap) ==
  \E n \in RawFileNames, f \in Parents :
    nextId <= cap /\ startUpload("w1", Owner, f, n)
PutBuild == \E u \in uploads : u.fileId \notin FileIds /\ putObject(u.s3Key)
CompleteBuild ==
  \E u \in uploads, n \in RawFileNames :
    /\ u.s3Key \in blobs
    /\ u.fileId \notin FileIds
    /\ completeUpload(u.fileId, Owner, "w1", u.folderId, n, u.s3Key)
DeleteFileBuild == \E id \in FileIds : deleteFile(id)
DeleteFolderBuild == \E id \in FolderIds : deleteFolder(id)
NextBuild ==
  \/ CreateBuild(MaxBuildIds) \/ StartBuild(MaxBuildIds) \/ PutBuild
  \/ CompleteBuild \/ DeleteFileBuild \/ DeleteFolderBuild
SpecBuild == Init /\ [][NextBuild]_vars

\* The same lifecycle with moves of folders and files to another folder
MoveFolderTree ==
  \E id \in FolderIds, p \in Parents : updateFolder(id, [parentFolderId |-> p])
MoveFileTree ==
  \E id \in FileIds, f \in Parents : updateFile(id, [folderId |-> f])
NextTree ==
  \/ CreateBuild(MaxMoveIds) \/ StartBuild(MaxMoveIds) \/ PutBuild
  \/ CompleteBuild \/ DeleteFileBuild \/ DeleteFolderBuild
  \/ MoveFolderTree \/ MoveFileTree
SpecTree == Init /\ [][NextTree]_vars

\* Authorization: a small hierarchy owned by one user, grants to both users
\* on existing targets, revokes and deletes
AuthNames == { <<"a", "/", "b">> }
CreateAuth ==
  \E n \in AuthNames, p \in Parents :
    /\ nextId <= MaxAuthIds
    /\ ~SiblingExists("w1", p, sanitizeFolderName(Trim(n)))
    /\ createFolder(n, Owner, "w1", p)
StartAuth ==
  \E n \in RawFileNames, f \in Parents :
    nextId <= MaxAuthIds /\ uploads = {} /\ startUpload("w1", Owner, f, n)
CompleteAuth ==
  \E u \in uploads, n \in RawFileNames :
    /\ u.fileId \notin FileIds
    /\ completeUpload(u.fileId, Owner, "w1", u.folderId, n, u.s3Key)
GrantGlobalAuth ==
  \E u \in Users, l \in LevelInputs :
    grantGlobalPermission(u, l) /\ Cardinality(perms') <= MaxPerms
GrantSpecificAuth ==
  \E u \in Users, ty \in ResourceTypes, l \in LevelInputs :
    \E t \in (IF ty = "folder" THEN FolderIds ELSE FileIds) :
      grantSpecificPermission(u, t, ty, l) /\ Cardinality(perms') <= MaxPerms
RevokeAuth == \E p \in perms : revokePermission(p.id)
NextAuth ==
  \/ CreateAuth \/ StartAuth \/ CompleteAuth
  \/ GrantGlobalAuth \/ GrantSpecificAuth \/ RevokeAuth
  \/ DeleteFileBuild \/ DeleteFolderBuild
SpecAuth == Init /\ [][NextAuth]_vars

\* Storage keys: the build lifecycle with update requests whose body names
\* the storage key, at the top level or under an update operator
OtherFolderKey == folderPrefix("w2", MissingId)
OtherFileKey == FileKey(rootPrefix("w2"), MissingId, <<"k">>)
FolderKeyPayloads ==
  { [s3Key |-> OtherFolderKey],
    [folderName |-> <<"c">>, s3Key |-> OtherFolderKey],
    "$set" :> [s3Key |-> OtherFolderKey] }
FileKeyPayloads ==
  { [s3Key |-> OtherFileKey],
    [fileName |-> <<"c">>, s3Key |-> OtherFileKey],
    "$set" :> [s3Key |-> OtherFileKey] }
UpdateFolderKeys ==
  \E id \in FolderIds, d \in FolderKeyPayloads : updateFolder(id, d)
UpdateFileKeys ==
  \E id \in FileIds, d \in FileKeyPayloads : updateFile(id, d)
NextKeys ==
  \/ CreateBuild(MaxKeyIds) \/ StartBuild(MaxKeyIds) \/ PutBuild
  \/ CompleteBuild \/ UpdateFolderKeys \/ UpdateFileKeys
SpecKeys == Init /\ [][NextKeys]_vars

\* Repeated deletes: the lifecycle with file moves, where a client repeats the
\* delete request it has just completed
DeleteFileAgain ==
  /\ last.op = "deleteFile"
  /\ last.res = "ok"
  /\ deleteFile(last.args.id)
NextTwice ==
  \/ CreateBuild(MaxTwiceIds) \/ StartBuild(MaxTwiceIds) \/ PutBuild
  \/ CompleteBuild \/ MoveFileTree \/ DeleteFileBuild \/ DeleteFileAgain
SpecTwice == Init /\ [][NextTwice]_vars

\* Parents: folders created under any parent id a request can carry, an id
\* of no folder included, and deleted
CreateAnyParent ==
  \E n \in ShortNames, b \in Businesses, p \in Parents \cup {MissingId} :
    nextId <= MaxParentIds /\ createFolder(n, Owner, b, p)
NextParents == CreateAnyParent \/ DeleteNamed
SpecParents == Init /\ [][NextParents]_vars

\* Grants: the authorization lifecycle without deletes, where the caller of a
\* grant repeats it for the same user and scope with another access-level array
AgainLevels == {"write"}
RegrantAuth ==
  /\ last.op \in {"grantGlobalPermission", "grantSpecificPermission"}
  /\ last.args.accessLevel # AgainLevels
  /\ IF last.op = "grantGlobalPermission"
     THEN grantGlobalPermission(last.args.userId, AgainLevels)
     ELSE grantSpecificPermission(last.args.userId, last.args.targetId,
                                  last.args.targetType, AgainLevels)
  /\ Cardinality(perms') <= MaxPerms
NextGrants ==
  \/ CreateAuth \/ StartAuth \/ CompleteAuth
  \/ GrantGlobalAuth \/ GrantSpecificAuth \/ RegrantAuth \/ RevokeAuth
SpecGrants == Init /\ [][NextGrants]_vars

\* Concurrent grants: folders of one owner, and grant requests that are
\* served while another grant is suspended at an await
FreeSlot(c) == inflight[c] = Idle /\ \A b \in Calls : b < c => inflight[b] # Idle
BeginGlobalRace ==
  \E c \in Calls, u \in Users, l \in LevelInputs :
    FreeSlot(c) /\ grantGlobalFind(c, u, l)
BeginSpecificRace ==
  \E c \in Calls, u \in Users, t \in FolderIds, l \in LevelInputs :
    FreeSlot(c) /\ grantSpecificFind(c, u, t, "folder", l)
WriteGlobalRace ==
  \E c \in Calls : grantGlobalWrite(c) /\ Cardinality(perms') <= MaxPerms
WriteSpecificRace ==
  \E c \in Calls : grantSpecificWrite(c) /\ Cardinality(perms') <= MaxPerms
PropagateRace ==
  \E c \in Calls : grantSpecificPropagate(c) /\ Cardinality(perms') <= MaxPerms
CreateRace ==
  \E n \in AuthNames, p \in Parents :
    /\ nextId <= MaxRaceIds
    /\ ~SiblingExists("w1", p, sanitizeFolderName(Trim(n)))
    /\ createFolder(n, Owner, "w1", p)
NextRace ==
  \/ CreateRace \/ BeginGlobalRace \/ BeginSpecificRace
  \/ WriteGlobalRace \/ WriteSpecificRace \/ PropagateRace
SpecRace == Init /\ [][NextRace]_vars

\* Concurrent child adds: createFolder requests under existing parents that
\* are served while another createFolder is suspended at an await
BeginCreateAdds ==
  \E c \in Calls, n \in ShortNames, p \in Parents :
    /\ nextId <= MaxAddIds
    /\ FreeSlot(c)
    /\ createFolderCheck(c, n, Owner, "w1", p)
SaveAdds == \E c \in Calls : createFolderSave(c)
FindParentAdds == \E c \in Calls : createFolderFindParent(c)
SaveParentAdds == \E c \in Calls : createFolderSaveParent(c)
NextAdds == BeginCreateAdds \/ SaveAdds \/ FindParentAdds \/ SaveParentAdds
SpecAdds == Init /\ [][NextAdds]_vars

\* Partial failure: the build lifecycle where one deleteFolder at a time runs
\* step by step and may stop after any step
BeginDeleteCrash ==
  \E id \in FolderIds : NoCallInFlight /\ deleteFolderFind(1, id)
StepDeleteCrash ==
  \/ deleteFolderRootPrefix(1) \/ deleteFolderRootFiles(1) \/ deleteFolderPop(1)
  \/ deleteFolderChildPrefix(1) \/ deleteFolderChildFiles(1)
  \/ deleteFolderChildDelete(1) \/ deleteFolderUnlink(1)
  \/ deleteFolderRootDelete(1)
StopDeleteCrash == deleteFolderStops(1)
CreateCrash == NoCallInFlight /\ CreateBuild(MaxCrashIds)
StartCrash == NoCallInFlight /\ StartBuild(MaxCrashIds)
PutCrash == NoCallInFlight /\ PutBuild
CompleteCrash == NoCallInFlight /\ CompleteBuild
NextCrash ==
  \/ CreateCrash \/ StartCrash \/ PutCrash \/ CompleteCrash
  \/ BeginDeleteCrash \/ StepDeleteCrash \/ StopDeleteCrash
SpecCrash == Init /\ [][NextCrash]_vars

\* Walks: folders whose child-folder lists are rewritten by update requests
\* to name any ids (absent folders, folders listed twice, ancestors), and one
\* deleteFolder at a time that runs step by step
ChildListInputs == { {1}, {2, MissingId}, 1..MaxWalkIds }
CreateWalk == NoCallInFlight /\ CreateBuild(MaxWalkIds)
RelinkWalk ==
  \E id \in FolderIds, ids \in ChildListInputs :
    NoCallInFlight /\ updateFolder(id, [folderIds |-> ids])
BeginDeleteWalk ==
  \E id \in FolderIds : NoCallInFlight /\ deleteFolderFind(1, id)
StepDeleteWalk ==
  \/ deleteFolderRootPrefix(1) \/ deleteFolderRootFiles(1) \/ deleteFolderPop(1)
  \/ deleteFolderChildPrefix(1) \/ deleteFolderChildFiles(1)
  \/ deleteFolderChildDelete(1) \/ deleteFolderUnlink(1)
  \/ deleteFolderRootDelete(1)
NextWalk == CreateWalk \/ RelinkWalk \/ BeginDeleteWalk \/ StepDeleteWalk
SpecWalk == Init /\ [][NextWalk]_vars
\* a deleteFolder that has started is resumed after each await
SpecWalkLive == SpecWalk /\ WF_vars(StepDeleteWalk)

\* Sessions: logins, refreshes and logouts of clients that present the tokens
\* the server has signed so far, served two at a time, while the clock runs
PresentedTokens == {NoToken} \cup {t \in Tokens : t.iat <= now}
LoginTokens == \E u \in Users : login(u)
BeginRefreshTokens ==
  \E c \in Calls, t \in PresentedTokens :
    /\ FreeSlot(c)
    /\ \A k \in Tokens : accepted[k] <= 1
    /\ refreshAccessTokenFind(c, t)
RotateTokens == \E c \in Calls : refreshAccessTokenSave(c)
BeginLogoutTokens ==
  \E c \in Calls, t \in PresentedTokens : FreeSlot(c) /\ logoutFind(c, t)
ClearTokens == \E c \in Calls : logoutSave(c)
TickTokens == now < MaxClock /\ Tick
NextTokens ==
  \/ LoginTokens \/ BeginRefreshTokens \/ RotateTokens
  \/ BeginLogoutTokens \/ ClearTokens \/ TickTokens
SpecTokens == Init /\ [][NextTokens]_vars

\* Additions during a delete: folders and uploads are added, each into a
\* folder that is stored when the request is served, while one deleteFolder
\* runs from await to await
CompleteRemoval ==
  \E u \in uploads, n \in RawFileNames :
    /\ u.s3Key \in blobs
    /\ u.fileId \notin FileIds
    /\ u.folderId \in Parents
    /\ completeUpload(u.fileId, Owner, "w1", u.folderId, n, u.s3Key)
NextRemoval ==
  \/ CreateBuild(MaxCrashIds) \/ StartBuild(MaxCrashIds) \/ PutBuild
  \/ CompleteRemoval \/ BeginDeleteCrash \/ StepDeleteCrash
SpecRemoval == Init /\ [][NextRemoval]_vars

\* Creation over HTTP: global grants are given and revoked, and authenticated
\* users send the three creation requests
FolderBodies ==
  [folderName : AuthNames, userId : Users, businessId : {"w1"},
   parentFolderId : {NullId, MissingId}]
StartBodies ==
  [businessId : {"w1"}, userId : Users, folderId : {NullId, MissingId},
   fileName : RawFileNames]
CompleteBodies ==
  [fileId : {MissingId}, businessId : {"w1"}, userId : Users,
   folderId : {NullId}, fileName : RawFileNames,
   s3Key : {FileKey(rootPrefix("w1"), MissingId, sanitizeFilename(Trim(n))) :
              n \in RawFileNames}]
PostFolderRoutes == \E u \in Users, b \in FolderBodies : postFolder(u, b)
PostStartRoutes == \E u \in Users, b \in StartBodies : postUploadStart(u, b)
PostCompleteRoutes == \E u \in Users, b \in CompleteBodies : postUploadComplete(u, b)
NextRoutes ==
  \/ GrantGlobalAuth \/ RevokeAuth
  \/ PostFolderRoutes \/ PostStartRoutes \/ PostCompleteRoutes
SpecRoutes == Init /\ [][NextRoutes]_vars

\* User.businessId: the workspace each user belongs to
BusinessOf == [u \in Users |-> IF u = "u1" THEN "w1" ELSE "w2"]

(* ------------------------------ properties ----------------------------- *)
IdsOf(resource) == IF resource = "folder" THEN FolderIds ELSE FileIds
RecordedOwner(resource, id) ==
  IF resource = "folder" THEN folders[id].userId ELSE files[id].userId
Allows(u, resource, id, a) == checkPermission(u, resource, id, a) = "next"

\* folders below F by parent pointers, found by climbing from each folder
RECURSIVE ClimbsTo(_, _, _)
ClimbsTo(d, F, fuel) ==
  IF fuel = 0 \/ d \notin FolderIds THEN FALSE
  ELSE \/ folders[d].parentFolderId = F
       \/ ClimbsTo(folders[d].parentFolderId, F, fuel - 1)
Descendants(F) == {d \in FolderIds : ClimbsTo(d, F, Cardinality(FolderIds))}
FilesUnder(F) == {x \in FileIds : files[x].folderId \in {F} \cup Descendants(F)}

GlobalGrantHas(u, a) ==
  \E p \in perms : p.isGlobal /\ p.userId = u /\ a \in p.accessLevel
ScopedGrantHas(u, resource, id, a) ==
  \E p \in perms : /\ ~p.isGlobal /\ p.userId = u /\ p.targetId = id
                   /\ p.targetType = resource /\ a \in p.accessLevel

GrantedFolder ==
  /\ last.op = "grantSpecificPermission"
  /\ last.args.targetType = "folder"
  /\ last.args.targetId \in FolderIds

\* C1: the recorded owner of an existing file or folder is allowed every
\* action on it, whatever Permission records the owner has or lacks.
C1_OwnershipBypass ==
  \A resource \in ResourceTypes : \A id \in IdsOf(resource) : \A a \in ACCESS_LEVELS :
    Allows(RecordedOwner(resource, id), resource, id, a)

\* the owner holds a record on the own folder that omits write, and no global one
C1_Witness ==
  \E id \in FolderIds : \E p \in perms :
    /\ p.userId = folders[id].userId /\ p.targetId = id /\ p.targetType = "folder"
    /\ "write" \notin p.accessLevel
    /\ ~GlobalGrantHas(folders[id].userId, "write")
    /\ Allows(folders[id].userId, "folder", id, "write")

GrantFolderStep ==
  /\ last'.op = "grantSpecificPermission"
  /\ last'.args.targetType = "folder"

\* the record's target is F or lies in F's subtree
InSubtree(p, F) ==
  \/ p.targetType = "folder" /\ p.targetId \in {F} \cup Descendants(F)
  \/ p.targetType = "file" /\ p.targetId \in FilesUnder(F)

\* C3: grantSpecific(U, F, "folder", L) leaves unchanged every global record
\* and every record, of any user, whose target is neither F nor in F's subtree.
C3_PropagationIsolation ==
  [][GrantFolderStep =>
       \A p \in perms :
         (p.isGlobal \/ ~InSubtree(p, last'.args.targetId)) => p \in perms']_vars

\* a folder grant that propagated while the grantee held, outside the subtree,
\* a record with another access-level set
C3_Witness ==
  /\ GrantedFolder
  /\ Descendants(last.args.targetId) \cup FilesUnder(last.args.targetId) # {}
  /\ \E p \in perms :
       /\ ~p.isGlobal /\ ~InSubtree(p, last.args.targetId)
       /\ p.userId = last.args.userId
       /\ p.targetId \in FolderIds \cup FileIds
       /\ p.accessLevel # last.args.accessLevel

\* C4: a user who does not own an existing resource is allowed an action on it
\* exactly when the user's global record lists the action or the user's record
\* scoped to that resource id and type lists it.
C4_Precedence ==
  \A u \in Users : \A resource \in ResourceTypes : \A id \in IdsOf(resource) :
    \A a \in ACCESS_LEVELS :
      RecordedOwner(resource, id) # u =>
        (Allows(u, resource, id, a) <=>
           (GlobalGrantHas(u, a) \/ ScopedGrantHas(u, resource, id, a)))

\* a global grant without write next to a specific grant with write on a
\* folder of another owner: write is allowed
C4_Witness ==
  \E u \in Users : \E id \in FolderIds :
    /\ folders[id].userId # u
    /\ \E p \in perms : p.isGlobal /\ p.userId = u /\ "write" \notin p.accessLevel
    /\ ScopedGrantHas(u, "folder", id, "write")
    /\ Allows(u, "folder", id, "write")

NotFoundCodes == {"FOLDER_NOT_FOUND", "FILE_NOT_FOUND"}

\* C6: for a well-formed id that refers to no record of the resource type the
\* outcome is NotFound whatever grants the requester holds; for an existing
\* resource that no tier allows the outcome is Forbidden; neither outcome
\* occurs in the other's case.
C6_ForbiddenVsNotFound ==
  \A u \in Users : \A resource \in ResourceTypes : \A id \in 1..MaxIds + 1 :
    \A a \in ACCESS_LEVELS :
      LET outcome == checkPermission(u, resource, id, a) IN
      /\ id \notin IdsOf(resource) => outcome \in NotFoundCodes
      /\ (/\ id \in IdsOf(resource)
          /\ RecordedOwner(resource, id) # u
          /\ ~GlobalGrantHas(u, a)
          /\ ~ScopedGrantHas(u, resource, id, a)) => outcome = "FORBIDDEN"
      /\ outcome = "FORBIDDEN" => id \in IdsOf(resource)
      /\ outcome \in NotFoundCodes => id \notin IdsOf(resource)

\* a requester with a global read grant and a specific grant on a deleted
\* folder gets NotFound for it, and another requester gets Forbidden on a
\* folder that exists
C6_Witness ==
  /\ \E u \in Users : \E id \in 1..(nextId - 1) :
       /\ id \notin FolderIds
       /\ GlobalGrantHas(u, "read")
       /\ ScopedGrantHas(u, "folder", id, "read")
       /\ checkPermission(u, "folder", id, "read") = "FOLDER_NOT_FOUND"
  /\ \E u \in Users : \E id \in FolderIds :
       checkPermission(u, "folder", id, "read") = "FORBIDDEN"

\* C7: when a folder named N exists under parent P in workspace W, a
\* createFolder whose name sanitizes to N, with the same P and W, fails with
\* the duplicate-name error and leaves the Folder collection as it was: no new
\* record and no new child link.
C7_SiblingConflict ==
  [][(/\ last'.op = "createFolder"
      /\ \E f \in FolderIds :
           /\ folders[f].businessId = last'.args.businessId
           /\ folders[f].parentFolderId = last'.args.parentFolderId
           /\ folders[f].folderName = sanitizeFolderName(Trim(last'.args.folderName)))
     => (last'.res = "Conflict" /\ folders' = folders)]_vars

\* a rejected create under an existing parent whose name is not what was sent
C7_Witness ==
  /\ last.op = "createFolder"
  /\ last.res = "Conflict"
  /\ last.args.parentFolderId \in FolderIds
  /\ last.args.folderName # sanitizeFolderName(Trim(last.args.folderName))
  /\ \E f \in FolderIds :
       /\ folders[f].parentFolderId = last.args.parentFolderId
       /\ folders[f].businessId = last.args.businessId
       /\ folders[f].folderName = sanitizeFolderName(Trim(last.args.folderName))
       /\ folders[last.args.parentFolderId].folderIds = {f}

\* C8: no two Folder records with the same workspace id and the same parent
\* folder id have the same name.
C8_SiblingNamesUnique ==
  \A f \in FolderIds : \A g \in FolderIds :
    (/\ f # g
     /\ folders[f].businessId = folders[g].businessId
     /\ folders[f].parentFolderId = folders[g].parentFolderId)
    => folders[f].folderName # folders[g].folderName

\* C9: deleteFolder(root) on a tree built by createFolder and completeUpload
\* leaves no Folder record for root or a folder below it, no File record whose
\* parent is one of them, no blob under one of their prefixes, and root is not
\* in the child-folder set of its parent.
C9_RecursiveDelete ==
  [][(last'.op = "deleteFolder" /\ last'.res = "ok") =>
       LET root == last'.args.id
           gone == {root} \cup Descendants(root)
       IN /\ \A d \in gone : d \notin DOMAIN folders'
          /\ \A x \in DOMAIN files' : files'[x].folderId \notin gone
          /\ \A k \in blobs' : \A d \in gone : ~HasPrefix(k, folders[d].s3Key)
          /\ \A p \in DOMAIN folders' : root \notin folders'[p].folderIds]_vars

\* the scenario root -> A -> B with an uploaded file in B, deleted in one call
C9_Witness ==
  /\ last.op = "deleteFolder"
  /\ last.res = "ok"
  /\ Cardinality(last.removed.folders) >= 3
  /\ last.removed.files # {}
  /\ last.removed.blobs # {}

\* C10: every id in a folder's child-file set is the id of a File record and
\* every id in a folder's child-folder set is the id of a Folder record.
C10_NoDanglingChildIds ==
  \A f \in FolderIds :
    /\ folders[f].fileIds \subseteq FileIds
    /\ folders[f].folderIds \subseteq FolderIds

\* C11: storage key immutability.  Ids are never reused, so a key equals the
\* key written at creation exactly when no step changes the key of a folder or
\* file that exists before and after it; in particular no updateFolder or
\* updateFile whose payload contains a storage-key field changes it.
C11_KeyImmutable ==
  [][/\ \A f \in FolderIds \cap DOMAIN folders' : folders'[f].s3Key = folders[f].s3Key
     /\ \A x \in FileIds \cap DOMAIN files' : files'[x].s3Key = files[x].s3Key]_vars

\* C12: deleting a file twice.  When deleteFile(id) has completed and
\* deleteFile(id) is called again, the second call fails with NotFound and
\* modifies no folder's child-file set, no blob and no File record.
C12_DeleteTwice ==
  [][(/\ last.op = "deleteFile" /\ last.res = "ok"
      /\ last'.op = "deleteFile" /\ last'.args = last.args)
     => (/\ last'.res = "NotFound"
         /\ UNCHANGED <<folders, files, blobs>>)]_vars
\* the repeated delete has been answered, with a stale child id still listed
C12_Witness ==
  /\ last.op = "deleteFile"
  /\ last.res = "NotFound"
  /\ last.args.id \notin FileIds
  /\ \E f \in FolderIds : last.args.id \in folders[f].fileIds

\* C13: createFolder with a parent id that refers to no existing folder fails
\* with NotFound and leaves the store unchanged: no Folder record is persisted.
C13_MissingParent ==
  [][(/\ last'.op = "createFolder"
      /\ last'.args.parentFolderId # NullId
      /\ last'.args.parentFolderId \notin FolderIds)
     => (/\ last'.res = "ParentNotFound"
         /\ UNCHANGED <<folders, files, blobs, perms>>)]_vars

\* C14: same-workspace parent.  Every Folder record whose parent is a stored
\* folder has the workspace id of that parent.
C14_SameWorkspaceParent ==
  \A f \in FolderIds :
    folders[f].parentFolderId \in FolderIds
      => folders[folders[f].parentFolderId].businessId = folders[f].businessId

Scope(p) == <<p.userId, p.isGlobal, p.targetId, p.targetType>>
GrantOps == {"grantGlobalPermission", "grantSpecificPermission"}

C16_AtomicUpsert ==
  NoCallInFlight => \A p, q \in perms : Scope(p) = Scope(q) => p = q

\* C17: no lost child-id updates.  When the createFolder calls that added
\* children to the same folder at the same time have all returned, every
\* folder created under a stored parent is present in that parent's child-id
\* set.
C17_NoLostChildIds ==
  NoCallInFlight =>
    \A f \in FolderIds :
      folders[f].parentFolderId \in FolderIds
        => f \in folders[folders[f].parentFolderId].folderIds

\* C18: revoke is local.  revokePermission(id) deletes exactly the Permission
\* record with that id and changes nothing else; when the record was a folder
\* grant, the user's records on the folders and files below that folder are
\* still stored and checkPermission still allows every action they carry.
C18_RevokeLocal ==
  [][last'.op = "revokePermission" =>
       /\ UNCHANGED <<folders, files, blobs>>
       /\ \A r \in perms : r.id = last'.args.permissionId =>
            /\ perms' = perms \ {r}
            /\ (~r.isGlobal /\ r.targetType = "folder" /\ r.targetId \in FolderIds) =>
                 \A q \in perms \ {r} :
                   (/\ q.userId = r.userId
                    /\ ~q.isGlobal
                    /\ \/ q.targetType = "folder" /\ q.targetId \in Descendants(r.targetId)
                       \/ q.targetType = "file" /\ q.targetId \in FilesUnder(r.targetId))
                   => /\ q \in perms'
                      /\ \A a \in q.accessLevel :
                           checkPermission(q.userId, q.targetType, q.targetId, a)' = "next"]_vars
\* a folder grant of a user who is not the owner and holds no global grant has
\* been revoked, and a record of that user on a target below the folder is left
C18_Witness ==
  /\ last.op = "revokePermission"
  /\ last.args.permissionId.targetType = "folder"
  /\ last.args.permissionId.targetId \in FolderIds
  /\ last.args.permissionId.userId # Owner
  /\ \A p \in perms : p.id # last.args.permissionId
  /\ ~\E p \in perms : p.isGlobal /\ p.userId = last.args.permissionId.userId
  /\ \E q \in perms :
       /\ q.userId = last.args.permissionId.userId
       /\ \/ q.targetType = "folder"
             /\ q.targetId \in Descendants(last.args.permissionId.targetId)
          \/ q.targetType = "file"
             /\ q.targetId \in FilesUnder(last.args.permissionId.targetId)
       /\ \A a \in q.accessLevel : Allows(q.userId, q.targetType, q.targetId, a)

\* C19: permissions are destroyed with their target.  Right after a completed
\* deleteFile(id) or deleteFolder(id) no Permission record has as target the
\* deleted file, the deleted folder, or a file or folder removed with the
\* deleted subtree.
C19_PermsDestroyedWithTarget ==
  /\ (last.op = "deleteFile" /\ last.res = "ok") =>
       ~\E p \in perms : p.targetType = "file" /\ p.targetId = last.args.id
  /\ (last.op = "deleteFolder" /\ last.res = "ok") =>
       ~\E p \in perms :
          \/ p.targetType = "folder" /\ p.targetId \in last.removed.folders
          \/ p.targetType = "file" /\ p.targetId \in last.removed.files

ResourceBusiness(resource, id) ==
  IF resource = "folder" THEN folders[id].businessId ELSE files[id].businessId

\* C20: workspace isolation of access.  For a user U and a resource R of
\* another workspace that U does not own and on which U holds no targeted
\* grant, checkPermission allows no action, whatever global grant U holds.
C20_WorkspaceIsolation ==
  \A U \in Users : \A resource \in ResourceTypes : \A id \in IdsOf(resource) :
    \A a \in ACCESS_LEVELS :
      (/\ ResourceBusiness(resource, id) # BusinessOf[U]
       /\ RecordedOwner(resource, id) # U
       /\ ~ScopedGrantHas(U, resource, id, a))
      => ~Allows(U, resource, id, a)

\* C21: partial-failure bias of deleteFolder.  When deleteFolder has stopped
\* after any of its steps, blobs without a File record may exist, but every
\* File record still has its blob (and so has every file of every Folder
\* record that is left).
C21_PartialFailureBias ==
  (NoCallInFlight /\ last.op = "deleteFolder" /\ last.res = "stopped")
    => \A x \in FileIds : files[x].s3Key \in blobs

\* C22: deleteFolder terminates.  On every store, whatever the child-folder
\* lists name (absent folders, a folder named by several lists, an ancestor or
\* the folder itself), a deleteFolder that has started returns, and the
\* folder it was called on is gone.
C22_DeleteTerminates ==
  (~NoCallInFlight) ~>
    (NoCallInFlight /\ last.op = "deleteFolder" /\ last.args.id \notin FolderIds)
\* a walk has returned after skipping an id of no folder and an id of a folder
\* it had already removed
C22_Witness ==
  /\ NoCallInFlight
  /\ last.op = "deleteFolder"
  /\ last.res = "ok"
  /\ MissingId \in last.skipped
  /\ last.skipped \cap last.removed.folders # {}

\* the records of user U on folder F, the folders below it and their files
SubtreeRecords(ps, U, F) ==
  {p \in ps : /\ p.userId = U
               /\ ~p.isGlobal
               /\ \/ p.targetType = "folder" /\ p.targetId \in {F} \cup Descendants(F)
                  \/ p.targetType = "file" /\ p.targetId \in FilesUnder(F)}

UnknownActions == {"share", "admin"}
\* req.params.id that is absent or not an ObjectId
MalformedIds == {NullId, -1}

\* C24: order of the resolver checks.  An action outside {read, write,
\* create, delete, owner} gives the server-side error
\* PERMISSION_INVALID_ACTION for every caller, id and store, never a denial;
\* for a valid action and an authenticated caller, a malformed or absent
\* resource id gives the client error INVALID_ID whatever ownership, global
\* grants and specific grants are stored.
C24_CheckOrder ==
  \A resource \in ResourceTypes :
    /\ \A U \in Users \cup {NoUser} :
         \A id \in IdsOf(resource) \cup MalformedIds \cup {MissingId} :
           \A a \in UnknownActions :
             checkPermission(U, resource, id, a) = "PERMISSION_INVALID_ACTION"
    /\ \A U \in Users : \A id \in MalformedIds : \A a \in ACCESS_LEVELS :
         checkPermission(U, resource, id, a) = "INVALID_ID"
\* a caller who owns a folder and holds a global grant with read, and a
\* specific grant, is answered INVALID_ID for an absent id and the server error
\* for an unknown action on the owned folder
C24_Witness ==
  \E U \in Users : \E f \in FolderIds :
    /\ folders[f].userId = U
    /\ GlobalGrantHas(U, "read")
    /\ ScopedGrantHas(U, "folder", f, "read")
    /\ checkPermission(U, "folder", NullId, "read") = "INVALID_ID"
    /\ checkPermission(U, "folder", f, "share") = "PERMISSION_INVALID_ACTION"
    /\ checkPermission(U, "folder", f, "read") = "next"

\* C25: concurrent creation.  When the createFolder calls that ran at the same
\* time with names that sanitize alike, the same parent and the same workspace
\* have all returned, at most one Folder record with that name, parent and
\* workspace is stored.
C25_OneOfConcurrentCreates ==
  NoCallInFlight =>
    \A n \in ShortNames : \A p \in Parents :
      Cardinality({f \in FolderIds :
                     /\ folders[f].businessId = "w1"
                     /\ folders[f].parentFolderId = p
                     /\ folders[f].folderName = sanitizeFolderName(Trim(n))}) <= 1

\* C26: refresh-token single use.  refreshAccessToken answers 200 to a given
\* refresh token at most once, whether the requests that carry it run one
\* after the other or at the same time.
C26_SingleUse == \A t \in Tokens : accepted[t] <= 1

\* C27: parent/child links agree in both directions.  In every state reached
\* by completed operations, C is in P's child-folder set exactly when C is a
\* Folder record whose parent is P, and X is in P's child-file set exactly
\* when X is a File record whose folder is P; hence the folders below P by
\* parent pointers are the folders reached from P by child-id lists.
C27_LinksBidirectional ==
  \A P \in FolderIds :
    /\ folders[P].folderIds = {C \in FolderIds : folders[C].parentFolderId = P}
    /\ folders[P].fileIds = {X \in FileIds : files[X].folderId = P}
    /\ Descendants(P) =
         FolderIds \ DOMAIN WalkSubtree(IdList(folders[P].folderIds),
                                        folders, files, blobs).folders

\* C28: blob survival.  When no operation is in progress, every File record
\* (each was completed after its blob was uploaded) has a blob at its storage
\* key: no completed sequence of moves by updateFile, deleteFile and
\* deleteFolder removes the blob of a file whose record remains.
C28_BlobSurvives ==
  NoCallInFlight => \A x \in FileIds : \E k \in blobs : k = files[x].s3Key

\* C29: deleteFolder racing with additions.  When a deleteFolder and the
\* completeUpload and createFolder calls served while it ran (each into a
\* folder stored at that moment) have all completed, no File record and no
\* Folder record names as its parent a folder that was removed.
C29_NoOrphanAfterRace ==
  NoCallInFlight =>
    /\ \A x \in FileIds : files[x].folderId \in Parents
    /\ \A f \in FolderIds : folders[f].parentFolderId \in Parents

\* C30: creation requests pass the gate.  When an authenticated user who
\* holds a global grant containing write sends POST /folder,
\* POST /file/upload/start or POST /file/upload/complete, checkPermission
\* does not answer the request: it reaches createFolder, startUpload or
\* completeUpload.
C30_CreationPassesGate ==
  [][last'.op \in CreationRoutes
       => ~GlobalGrantHas(last'.args.userId, "write")]_vars

====
